---- MODULE Spec2Model ----
(***************************************************************************)
(* A model of these parts of shelf.nu:                                     *)
(*   - the bulk location update modal (useBulkLocationUpdateModal and the  *)
(*     useBulkModal lifecycle controller it is built on),                  *)
(*   - the location data service (getLocation, createLocation,             *)
(*     updateLocation, deleteLocation, bulkDeleteLocations,                *)
(*     updateLocationImage, generateLocationWithImages) over the Location  *)
(*     and Image tables,                                                   *)
(*   - the pagination arithmetic of getLocation / getLocations,            *)
(*   - the list queries of getLocations and getLocation with their search, *)
(*   - the loader and the action of the asset route,                       *)
(*   - createLocationsIfNotExists called twice concurrently,               *)
(*   - the NewNote form and its shared editing flag.                       *)
(* Each part has its own specification (SpecModal, SpecDb, SpecWrite,      *)
(* SpecPage, SpecLocations, SpecAssets, SpecRoute, SpecImport, SpecNote);  *)
(* the variables of the other parts stay at their initial values.          *)
(***************************************************************************)
EXTENDS Integers, Sequences, FiniteSets

VARIABLES
    isOpen,        \* BulkModalState.isOpen
    isSubmitting,  \* BulkModalState.isSubmitting
    inFlight,      \* bulk-action requests sent and not yet completed
    calls,         \* the controller operations invoked so far, oldest first
    locations,     \* rows of the Location table
    images,        \* ids of the rows of the Image table
    nextLocationId,\* the id the next created location gets (ids are never reused)
    nextImageId,   \* the id the next created image gets
    pending,       \* the deleteLocation call that is between its two writes
    last,          \* the service call that completed most recently
    page,          \* params.page: <<>> when not passed, else <<n>>
    perPage,       \* params.perPage: <<>> when not passed, else <<n>>
    skip,          \* the skip handed to the query
    take,          \* the take handed to the query
    pagedBy,       \* the function that computed skip and take
    assets,        \* rows of the Asset table
    search,        \* params.search: <<>> when null or not passed, else <<text>>
    result,        \* what the last list query returned
    request,       \* the request the asset route handles
    permission,    \* the caller: current organization and the actions allowed
    trace,         \* the service calls the handler made, oldest first
    response,      \* how the handler ended
    runs,          \* the createLocationsIfNotExists calls in progress
    isEditing,     \* per NewNote instance, the isEditing useAtom gives it
    content,       \* per NewNote instance, the value of its editor
    focus,         \* the element of the page that has the focus
    effects,       \* the instances whose focus effect has yet to run
    submitted,     \* the number of form submissions made
    processing,    \* isFormProcessing(fetcher.state)
    event          \* the last event handled

modalVars == <<isOpen, isSubmitting, inFlight, calls>>

dbVars == <<locations, images, nextLocationId, nextImageId, pending, last>>

pageVars == <<page, perPage, skip, take, pagedBy>>

listVars == <<assets, search, result>>

\* the variables of the parts specified further down
routeVars == <<request, permission, trace, response>>

importVars == <<runs>>

noteVars ==
    <<isEditing, content, focus, effects, submitted, processing, event>>

laterVars == <<listVars, routeVars, importVars, noteVars>>

vars == <<modalVars, dbVars, pageVars, laterVars>>

(***************************************************************************)
(* Bounds                                                                  *)
(***************************************************************************)
\* longest sequence of controller operations explored
MaxCalls == 5

\* number of locations ever created
MaxLocations == 2

\* number of images ever created
MaxImages == 1

\* largest page number passed
MaxPage == 4

\* largest perPage passed
MaxPerPage == 27

\* page and perPage go down to minus this
MaxBelowZero == 2

(***************************************************************************)
(* Bulk location update modal                                              *)
(***************************************************************************)
\* the `disabled` flag the controller hands out: derived from isSubmitting
disabled == isSubmitting

Logged(op) == /\ Len(calls) < MaxCalls
              /\ calls' = Append(calls, op)

\* an open that toggles
openToggles == /\ isOpen' = ~isOpen
               /\ UNCHANGED <<isSubmitting, inFlight>>
               /\ Logged("open")

\* open(): sets isOpen=true
open == /\ isOpen' = TRUE
        /\ UNCHANGED <<isSubmitting, inFlight>>
        /\ Logged("open")

\* a close that forgets the in-flight check
handleCloseDialogUnguarded ==
    /\ isOpen' = FALSE
    /\ UNCHANGED <<isSubmitting, inFlight>>
    /\ Logged("close")

\* close(): sets isOpen=false, a no-op while a submission is in flight
handleCloseDialog ==
    /\ isOpen' = IF isSubmitting THEN isOpen ELSE FALSE
    /\ UNCHANGED <<isSubmitting, inFlight>>
    /\ Logged("close")

\* onSubmitStart(): sets isSubmitting=true
onSubmitStart == /\ isSubmitting' = TRUE
                 /\ inFlight' = inFlight + 1
                 /\ UNCHANGED isOpen
                 /\ Logged("onSubmitStart")

\* an onSubmitEnd that clears the flag but leaves the modal open
onSubmitEndKeepOpen ==
    /\ isSubmitting' = FALSE
    /\ inFlight' = IF inFlight > 0 THEN inFlight - 1 ELSE 0
    /\ UNCHANGED isOpen
    /\ Logged("onSubmitEnd")

\* onSubmitEnd(): sets isSubmitting=false, isOpen=false
onSubmitEnd ==
    /\ isSubmitting' = FALSE
    /\ isOpen' = FALSE
    /\ inFlight' = IF inFlight > 0 THEN inFlight - 1 ELSE 0
    /\ Logged("onSubmitEnd")

\* the trigger control is disabled while submitting
TriggerDisabled == disabled

\* <Button ... disabled={disabled} onClick={handleCloseDialog}>Cancel</Button>
CancelDisabled == disabled

\* a Confirm button that is never disabled
ConfirmNeverDisabled == FALSE

\* <Button ... type="submit" disabled={disabled} ...>Confirm</Button>
ConfirmDisabled == disabled

\* the user activates the trigger
TriggerClick == /\ ~TriggerDisabled
                /\ open

\* the user activates Cancel; the modal body is only on screen while open
CancelClick == /\ isOpen
               /\ ~CancelDisabled
               /\ handleCloseDialog

\* the user activates Confirm: the form submission begins
ConfirmClick == /\ isOpen
                /\ ~ConfirmDisabled
                /\ onSubmitStart

\* open() invoked on the controller in any state
OpenCall == open

\* close() invoked on the controller in any state
CloseCall == handleCloseDialog

\* the hosting form's submission lifecycle signals completion, in any state
SubmitEnd == onSubmitEnd

(***************************************************************************)
(* Location data service                                                   *)
(***************************************************************************)
Orgs == {"orgA", "orgB"}

Names == {"Depot", "Shed"}

\* a location id is 1..MaxLocations; the reserved "all selected" value is no
\* location's id
ALL_SELECTED_KEY == 0

\* imageId of a location without image (null)
NoImage == 0

\* an optional name that was not passed (undefined)
NoName == "undefined"

\* the status a ShelfError carries when it is given none and its cause has none
DefaultErrorStatus == 500

\* status: 404 of the error thrown for a location of another organization of
\* the user
NotFoundStatus == 404

LocationIds == 1..MaxLocations

\* Location.imageUrl of a location that never got an image uploaded
NoUrl == <<>>

\* names produced by id(): unique, never a user-chosen name
GeneratedNames == <<"cuid1", "cuid2", "cuid3", "cuid4", "cuid5", "cuid6">>

id(n) == GeneratedNames[n]

\* pending: the deleteLocation call in progress and the image it has yet to
\* delete
NoCall == [op |-> "none", organizationId |-> "", id |-> 0, imageId |-> NoImage]

\* last: the call, its arguments and how it ended; deleted: the number of
\* locations a bulk delete removed
NoResult == [op |-> "none", organizationId |-> "", id |-> 0, ids |-> {},
             deleted |-> 0, outcome |-> "ok", status |-> 0, kind |-> ""]

\* a thrown non-ShelfError (a database error)
DbError == [isShelfError |-> FALSE, status |-> 0]

\* new ShelfError({ cause, status, ... }).status: the given status, else the
\* status of a ShelfError cause, else the default
ShelfErrorStatus(status, cause) ==
    IF status # 0 THEN status
    ELSE IF cause.isShelfError /\ cause.status # 0 THEN cause.status
    ELSE DefaultErrorStatus

\* the call returns normally
Returns(r) == last' = [r EXCEPT !.outcome = "ok", !.status = 0, !.kind = ""]

\* the call throws a ShelfError
Throws(r, status, kind) ==
    last' = [r EXCEPT !.outcome = "ShelfError", !.status = status,
                      !.kind = kind]

\* the unique index of the Location table on (organizationId, name)
UniqueViolation(org, name, exceptId) ==
    \E l \in locations :
        l.organizationId = org /\ l.name = name /\ l.id # exceptId

\* maybeUniqueConstraintViolation(cause, "Location", ...): a ShelfError that
\* says the name is taken when the cause is a unique-constraint violation
maybeUniqueConstraintViolation(r, isUnique) ==
    Throws(r, ShelfErrorStatus(0, DbError),
           IF isUnique THEN "duplicate" ELSE "generic")

(* getLocation ----------------------------------------------------------- *)

\* where: { OR: [{ id, organizationId }, ...(userOrganizations?.length
\*   ? [{ id, organizationId: { in: otherOrganizationIds } }] : [])] }
GetLocationWhere(l, locId, org, userOrganizations) ==
    \/ l.id = locId /\ l.organizationId = org
    \/ /\ userOrganizations # {}
       /\ l.id = locId
       /\ l.organizationId \in userOrganizations

\* the location is of another organization the user belongs to
WrongOrganization(l, org, userOrganizations) ==
    /\ userOrganizations # {}
    /\ l.organizationId # org
    /\ l.organizationId \in userOrganizations

getLocation(locId, org, userOrganizations) ==
    LET r == [NoResult EXCEPT !.op = "getLocation", !.id = locId,
                              !.organizationId = org]
        match == {l \in locations :
                    GetLocationWhere(l, locId, org, userOrganizations)}
    IN  /\ IF match = {}
           THEN \* findFirstOrThrow throws; the catch wraps it, giving no status
                Throws(r, ShelfErrorStatus(0, DbError), "notFound")
           ELSE LET location == CHOOSE l \in match : TRUE
                IN  IF WrongOrganization(location, org, userOrganizations)
                    THEN \* thrown with status 404, then wrapped by the catch
                         Throws(r, ShelfErrorStatus(0,
                                      [isShelfError |-> TRUE,
                                       status |-> ShelfErrorStatus(
                                                    NotFoundStatus, DbError)]),
                                "notFound")
                    ELSE Returns(r)
        /\ UNCHANGED <<locations, images, nextLocationId, nextImageId, pending>>

(* createLocation -------------------------------------------------------- *)

\* a createLocation whose catch returns instead of throwing
createLocationSwallowsError(name, org) ==
    LET r == [NoResult EXCEPT !.op = "createLocation",
                              !.organizationId = org]
    IN  IF UniqueViolation(org, name, 0)
        THEN /\ Returns(r)
             /\ UNCHANGED <<locations, images, nextLocationId, nextImageId,
                            pending>>
        ELSE /\ nextLocationId <= MaxLocations
             /\ locations' = locations \cup
                    {[id |-> nextLocationId, organizationId |-> org,
                      name |-> name, imageId |-> NoImage,
                      imageUrl |-> NoUrl]}
             /\ nextLocationId' = nextLocationId + 1
             /\ Returns([r EXCEPT !.id = nextLocationId])
             /\ UNCHANGED <<images, nextImageId, pending>>

createLocation(name, org) ==
    LET r == [NoResult EXCEPT !.op = "createLocation",
                              !.organizationId = org]
    IN  IF UniqueViolation(org, name, 0)
        THEN /\ maybeUniqueConstraintViolation(r, TRUE)
             /\ UNCHANGED <<locations, images, nextLocationId, nextImageId,
                            pending>>
        ELSE /\ nextLocationId <= MaxLocations
             /\ locations' = locations \cup
                    {[id |-> nextLocationId, organizationId |-> org,
                      name |-> name, imageId |-> NoImage,
                      imageUrl |-> NoUrl]}
             /\ nextLocationId' = nextLocationId + 1
             /\ Returns([r EXCEPT !.id = nextLocationId])
             /\ UNCHANGED <<images, nextImageId, pending>>

(* updateLocation -------------------------------------------------------- *)

\* a where clause that leaves out the organization
UpdateWhereIdOnly(l, locId, org) == l.id = locId

\* where: { id, organizationId }
UpdateWhere(l, locId, org) == l.id = locId /\ l.organizationId = org

updateLocation(locId, name, org) ==
    LET r == [NoResult EXCEPT !.op = "updateLocation", !.id = locId,
                              !.organizationId = org]
        match == {l \in locations : UpdateWhere(l, locId, org)}
    IN  /\ IF match = {}
           THEN \* record to update not found
                /\ maybeUniqueConstraintViolation(r, FALSE)
                /\ UNCHANGED locations
           ELSE LET location == CHOOSE l \in match : TRUE
                IN  IF name # NoName /\
                       UniqueViolation(location.organizationId, name, locId)
                    THEN /\ maybeUniqueConstraintViolation(r, TRUE)
                         /\ UNCHANGED locations
                    ELSE /\ locations' = (locations \ {location}) \cup
                              {[location EXCEPT !.name =
                                  IF name = NoName THEN location.name ELSE name]}
                         /\ Returns(r)
        /\ UNCHANGED <<images, nextLocationId, nextImageId, pending>>

(* deleteLocation -------------------------------------------------------- *)

\* where: { id, organizationId }
DeleteWhere(l, locId, org) == l.id = locId /\ l.organizationId = org

\* db.location.delete(...), the first database call of deleteLocation
deleteLocation(locId, org) ==
    LET r == [NoResult EXCEPT !.op = "deleteLocation", !.id = locId,
                              !.organizationId = org]
        match == {l \in locations : DeleteWhere(l, locId, org)}
    IN  /\ pending = NoCall
        /\ IF match = {}
           THEN /\ Throws(r, ShelfErrorStatus(0, DbError), "generic")
                /\ UNCHANGED <<locations, pending>>
           ELSE LET location == CHOOSE l \in match : TRUE
                IN  /\ locations' = locations \ {location}
                    /\ IF location.imageId # NoImage
                       THEN /\ pending' =
                                 [NoCall EXCEPT !.op = "deleteLocation",
                                                !.id = locId,
                                                !.organizationId = org,
                                                !.imageId = location.imageId]
                            /\ UNCHANGED last
                       ELSE /\ Returns(r)
                            /\ UNCHANGED pending
        /\ UNCHANGED <<images, nextLocationId, nextImageId>>

\* db.image.delete(...), the second database call of deleteLocation
deleteLocationImage ==
    LET c == pending
        r == [NoResult EXCEPT !.op = "deleteLocation", !.id = c.id,
                              !.organizationId = c.organizationId]
    IN  /\ c.op = "deleteLocation"
        /\ IF c.imageId \in images
           THEN /\ images' = images \ {c.imageId}
                /\ Returns(r)
           ELSE \* record to delete not found
                /\ Throws(r, ShelfErrorStatus(0, DbError), "generic")
                /\ UNCHANGED images
        /\ pending' = NoCall
        /\ UNCHANGED <<locations, nextLocationId, nextImageId>>

(* bulkDeleteLocations --------------------------------------------------- *)

\* a where clause that never looks for the "all selected" value
BulkDeleteWhereIdsOnly(l, locationIds, org) ==
    l.id \in locationIds /\ l.organizationId = org

\* where: locationIds.includes(ALL_SELECTED_KEY) ? { organizationId }
\*        : { id: { in: locationIds }, organizationId }
BulkDeleteWhere(l, locationIds, org) ==
    IF ALL_SELECTED_KEY \in locationIds
    THEN l.organizationId = org
    ELSE l.id \in locationIds /\ l.organizationId = org

\* db.location.findMany(...), then db.$transaction(...) with both deleteMany
\* calls on what was found
bulkDeleteLocations(locationIds, org) ==
    LET found == {l \in locations : BulkDeleteWhere(l, locationIds, org)}
        r == [NoResult EXCEPT !.op = "bulkDeleteLocations",
                              !.organizationId = org,
                              !.ids = locationIds,
                              !.deleted = Cardinality(found)]
        locationWithImages == {l \in found : l.imageId # NoImage}
    IN  /\ pending = NoCall
        /\ locations' = {l \in locations : l.id \notin {f.id : f \in found}}
        /\ images' = images \ {l.imageId : l \in locationWithImages}
        /\ Returns(r)
        /\ UNCHANGED <<nextLocationId, nextImageId, pending>>

(* updateLocationImage ---------------------------------------------------- *)

\* the public URL of the file stored at
\* getFileUploadPath({ organizationId, type: "locations", typeId: locationId })
getFileUploadPath(org, locId) == <<org, locId>>

\* a where clause that leaves out the organization
UpdateImageWhereIdOnly(l, locId, org) == l.id = locId

\* where: { id: locationId, organizationId }
UpdateImageWhere(l, locId, org) == l.id = locId /\ l.organizationId = org

\* hasImage: the form data has an "image" field; without one the function
\* returns before the update
updateLocationImage(locId, org, hasImage) ==
    LET r == [NoResult EXCEPT !.op = "updateLocationImage", !.id = locId,
                              !.organizationId = org]
        match == {l \in locations : UpdateImageWhere(l, locId, org)}
    IN  /\ IF ~hasImage
           THEN /\ Returns(r)
                /\ UNCHANGED locations
           ELSE IF match = {}
           THEN \* record to update not found
                /\ Throws(r, ShelfErrorStatus(0, DbError), "generic")
                /\ UNCHANGED locations
           ELSE LET location == CHOOSE l \in match : TRUE
                IN  /\ locations' = (locations \ {location}) \cup
                         {[location EXCEPT
                             !.imageUrl = getFileUploadPath(org, locId)]}
                    /\ Returns(r)
        /\ UNCHANGED <<images, nextLocationId, nextImageId, pending>>

(* generateLocationWithImages -------------------------------------------- *)

\* numberOfLocations times: an image, then a location named id() with it
generateLocationWithImages(org, numberOfLocations) ==
    LET r == [NoResult EXCEPT !.op = "generateLocationWithImages",
                              !.organizationId = org]
    IN  /\ nextLocationId + numberOfLocations - 1 <= MaxLocations
        /\ nextImageId + numberOfLocations - 1 <= MaxImages
        /\ images' = images \cup
              {nextImageId + i : i \in 0..(numberOfLocations - 1)}
        /\ locations' = locations \cup
              {[id |-> nextLocationId + i, organizationId |-> org,
                name |-> id(nextLocationId + i),
                imageId |-> nextImageId + i, imageUrl |-> NoUrl] :
                 i \in 0..(numberOfLocations - 1)}
        /\ nextLocationId' = nextLocationId + numberOfLocations
        /\ nextImageId' = nextImageId + numberOfLocations
        /\ Returns(r)
        /\ UNCHANGED pending

(***************************************************************************)
(* Pagination of getLocation and getLocations                              *)
(***************************************************************************)
\* perPage = 8 in the parameter defaults, and the fallback of take
DefaultPerPage == 8

\* page = 1 in the parameter defaults
DefaultPage == 1

\* "max 25 per page"
DocumentedMaxPerPage == 25

\* a destructuring default: the value passed, or the default when undefined
OrDefault(v, d) == IF v = <<>> THEN d ELSE v[1]

\* getLocation: const skip = page > 1 ? (page - 1) * perPage : 0;
GetLocationSkip(pg, pp) == IF pg > 1 THEN (pg - 1) * pp ELSE 0

\* getLocation: const take = perPage >= 1 ? perPage : 8;
GetLocationTake(pp) == IF pp >= 1 THEN pp ELSE DefaultPerPage

\* a skip that counts pages from 0
GetLocationsSkipFromZero(pg, pp) == IF pg > 1 THEN pg * pp ELSE 0

\* getLocations: const skip = page > 1 ? (page - 1) * perPage : 0;
GetLocationsSkip(pg, pp) == IF pg > 1 THEN (pg - 1) * pp ELSE 0

\* getLocations: const take = perPage >= 1 ? perPage : 8;
GetLocationsTake(pp) == IF pp >= 1 THEN pp ELSE DefaultPerPage

\* getLocation up to the query: the defaults, then skip and take
getLocationPaging ==
    /\ pagedBy = "none"
    /\ skip' = GetLocationSkip(OrDefault(page, DefaultPage),
                               OrDefault(perPage, DefaultPerPage))
    /\ take' = GetLocationTake(OrDefault(perPage, DefaultPerPage))
    /\ pagedBy' = "getLocation"
    /\ UNCHANGED <<page, perPage>>

\* getLocations up to the query: the defaults, then skip and take
getLocationsPaging ==
    /\ pagedBy = "none"
    /\ skip' = GetLocationsSkip(OrDefault(page, DefaultPage),
                                OrDefault(perPage, DefaultPerPage))
    /\ take' = GetLocationsTake(OrDefault(perPage, DefaultPerPage))
    /\ pagedBy' = "getLocations"
    /\ UNCHANGED <<page, perPage>>

(***************************************************************************)
(* The list queries of getLocations and getLocation                        *)
(***************************************************************************)
\* most assets in the Asset table
MaxAssets == 2

\* largest page and perPage asked of a list query
MaxListPage == 2

MaxListPerPage == 2

\* names and titles are sequences of characters
ListNames == {<<"a">>, <<"A", "b">>, <<"b">>}

SearchTexts == {<<>>, <<"a">>, <<"B">>, <<"a", "B">>, <<"b", "a">>}

\* result: the query, its arguments and what it returned; rows: the ids of
\* the page, in order; total: the count
NoRows == [op |-> "none", organizationId |-> "", id |-> 0, rows |-> <<>>,
           total |-> 0, outcome |-> "ok"]

\* mode: "insensitive"
Lower(c) == CASE c = "A" -> "a" [] c = "B" -> "b" [] OTHER -> c

toLower(s) == [i \in 1..Len(s) |-> Lower(s[i])]

\* contains: the text has the searched text as a substring
contains(text, searched) ==
    \E i \in 0..(Len(text) - Len(searched)) :
        SubSeq(text, i + 1, i + Len(searched)) = searched

containsInsensitive(text, searched) ==
    contains(toLower(text), toLower(searched))

\* if (search): null, undefined and "" are falsy
Truthy(s) == s # <<>> /\ s[1] # <<>>

RECURSIVE Descending(_)
\* the ids of S, largest first
Descending(S) ==
    IF S = {} THEN <<>>
    ELSE LET m == CHOOSE x \in S : \A y \in S : y <= x
         IN  <<m>> \o Descending(S \ {m})

RECURSIVE Ascending(_)
\* the ids of S, smallest first
Ascending(S) ==
    IF S = {} THEN <<>>
    ELSE LET m == CHOOSE x \in S : \A y \in S : x <= y
         IN  <<m>> \o Ascending(S \ {m})

\* skip and take applied to the ordered rows
Window(rows, sk, tk) ==
    SubSeq(rows, sk + 1, IF sk + tk < Len(rows) THEN sk + tk ELSE Len(rows))

\* a where that compares the name as written
GetLocationsWhereCaseSensitive(l, org, s) ==
    /\ l.organizationId = org
    /\ Truthy(s) => contains(l.name, s[1])

\* let where = { organizationId };
\* if (search) where.name = { contains: search, mode: "insensitive" }
GetLocationsWhere(l, org, s) ==
    /\ l.organizationId = org
    /\ Truthy(s) => containsInsensitive(l.name, s[1])

\* getLocations: skip and take, then findMany and count with the same where;
\* the newest (largest id) first. A negative skip is refused by the database
\* client and the catch wraps the error.
getLocations(org) ==
    LET r == [NoRows EXCEPT !.op = "getLocations", !.organizationId = org]
        matching == {l \in locations : GetLocationsWhere(l, org, search)}
    IN  /\ getLocationsPaging
        /\ IF skip' < 0
           THEN result' = [r EXCEPT !.outcome = "ShelfError"]
           ELSE result' =
                  [r EXCEPT !.rows = Window(Descending({l.id : l \in matching}),
                                            skip', take'),
                            !.total = Cardinality(matching)]
        /\ UNCHANGED <<assets, search>>

\* let assetsWhere = {};
\* if (search) assetsWhere.title = { contains: search, mode: "insensitive" }
\* applied to the assets of the location by the include
AssetsWhere(a, locId, s) ==
    /\ a.locationId = locId
    /\ Truthy(s) => containsInsensitive(a.title, s[1])

\* db.asset.count({ where: { locationId: id } })
AssetsCountWhere(a, locId) == a.locationId = locId

\* getLocation: skip and take, then findFirstOrThrow including the page of
\* assets, and the count of assets
getLocationWithAssets(locId, org, userOrganizations) ==
    LET r == [NoRows EXCEPT !.op = "getLocation", !.id = locId,
                            !.organizationId = org]
        match == {l \in locations :
                    GetLocationWhere(l, locId, org, userOrganizations)}
        listed == {a \in assets : AssetsWhere(a, locId, search)}
        counted == {a \in assets : AssetsCountWhere(a, locId)}
    IN  /\ getLocationPaging
        /\ IF \/ skip' < 0
              \/ match = {}
              \/ \E l \in match : WrongOrganization(l, org, userOrganizations)
           THEN result' = [r EXCEPT !.outcome = "ShelfError"]
           ELSE result' =
                  [r EXCEPT !.rows = Window(Ascending({a.id : a \in listed}),
                                            skip', take'),
                            !.total = Cardinality(counted)]
        /\ UNCHANGED <<assets, search>>

(***************************************************************************)
(* The asset route: loader and action                                      *)
(***************************************************************************)
\* most assets in the Asset table of the route
MaxRouteAssets == 2

AssetIds == 1..MaxRouteAssets

\* z.enum(["delete", "toggle"])
Intents == {"delete", "toggle"}

\* a form field that was not submitted
NoField == "undefined"

\* PermissionAction
PermissionActions == {"read", "update", "delete"}

NoRequest == [paramsValid |-> TRUE, id |-> 0, intent |-> NoField,
              availableToBook |-> NoField, mainImageUrl |-> NoField]

NoPermission == [organizationId |-> "", allowed |-> {}]

\* kind: "returned", "thrown" (the handler throws the response) or "escaped"
\* (an exception leaves the handler); status: where the HTTP status comes from
NoResponse == [handler |-> "none", kind |-> "none", body |-> "", status |-> "",
               to |-> ""]

\* an entry of the trace
Call(fn, org, i, act, value, ok) ==
    [fn |-> fn, organizationId |-> org, id |-> i, action |-> act,
     availableToBook |-> value, ok |-> ok]

\* json(body, init)
json(body, status) ==
    [handler |-> "", kind |-> "returned", body |-> body, status |-> status,
     to |-> ""]

\* redirect(url)
redirect(to) ==
    [handler |-> "", kind |-> "returned", body |-> "redirect",
     status |-> "default", to |-> to]

\* getParams throws on params that do not match the schema, outside the try
escaped ==
    [handler |-> "", kind |-> "escaped", body |-> "ShelfError", status |-> "",
     to |-> ""]

\* an outcome of a handler
Outcome(tr, rows, resp) == [trace |-> tr, assets |-> rows, response |-> resp]

\* a map that asks for the update permission whatever the intent
intent2ActionMapAllUpdate(intent) == "update"

\* intent2ActionMap: delete -> PermissionAction.delete,
\*                   toggle -> PermissionAction.update
intent2ActionMap(intent) == IF intent = "delete" THEN "delete" ELSE "update"

\* requirePermission({ userId, request, entity, action }): the organization of
\* the caller when the action is allowed, else it throws
requirePermission(perm, act) ==
    Call("requirePermission",
         IF act \in perm.allowed THEN perm.organizationId ELSE "", 0, act,
         FALSE, act \in perm.allowed)

\* a transform that takes any submitted value for "on"
AvailabilityForBookingFormSchemaAnyValue(value) == value # NoField

\* z.string().transform((val) => val === "on").default("false")
AvailabilityForBookingFormSchema(value) ==
    (IF value = NoField THEN "false" ELSE value) = "on"

\* deleteAsset({ organizationId, id }): the rows it deletes
DeleteAssetWhere(a, org, i) == a.id = i /\ a.organizationId = org

\* updateAssetBookingAvailability(id, availableToBook): the rows it updates;
\* it is given the id alone
UpdateAssetBookingAvailabilityWhere(a, i) == a.id = i

\* getAsset({ organizationId, id })
GetAssetWhere(a, org, i) == a.id = i /\ a.organizationId = org

sendNotification == Call("sendNotification", "", 0, "", FALSE, TRUE)

\* the catch of the action:
\* return json(error(reason), { status: reason.status })
ActionCatch(tr, rows) == Outcome(tr, rows, json("error", "reason.status"))

\* case "delete"
ActionDelete(req, org, permCall, failing) ==
    LET owned == {a \in assets : DeleteAssetWhere(a, org, req.id)}
        deleted == failing # "deleteAsset" /\ owned # {}
        del == Call("deleteAsset", org, req.id, "", FALSE, deleted)
        rows == assets \ owned
        removed == failing # "deleteAssetImage"
        img == Call("deleteAssetImage", "", 0, "", FALSE, removed)
    IN  IF ~deleted THEN ActionCatch(<<permCall, del>>, assets)
        ELSE IF req.mainImageUrl = NoField
        THEN Outcome(<<permCall, del, sendNotification>>, rows,
                     redirect("/assets"))
        ELSE IF ~removed THEN ActionCatch(<<permCall, del, img>>, rows)
        ELSE Outcome(<<permCall, del, img, sendNotification>>, rows,
                     redirect("/assets"))

\* case "toggle"
ActionToggle(req, permCall, failing) ==
    LET availableToBook == AvailabilityForBookingFormSchema(req.availableToBook)
        target == {a \in assets :
                     UpdateAssetBookingAvailabilityWhere(a, req.id)}
        updated == failing # "updateAssetBookingAvailability" /\ target # {}
        upd == Call("updateAssetBookingAvailability", "", req.id, "",
                    availableToBook, updated)
    IN  IF ~updated THEN ActionCatch(<<permCall, upd>>, assets)
        ELSE Outcome(<<permCall, upd, sendNotification>>,
                     (assets \ target) \cup
                         {[a EXCEPT !.availableToBook = availableToBook] :
                            a \in target},
                     json("data", "default"))

\* action({ context, request, params }); failing: the call that throws for a
\* reason of its own
actionOutcome(req, perm, failing) ==
    LET permCall == requirePermission(perm, intent2ActionMap(req.intent))
    IN  IF ~req.paramsValid THEN Outcome(<<>>, assets, escaped)
        ELSE IF failing = "formData" THEN ActionCatch(<<>>, assets)
        ELSE IF req.intent \notin Intents THEN ActionCatch(<<>>, assets)
        ELSE IF ~permCall.ok THEN ActionCatch(<<permCall>>, assets)
        ELSE IF req.intent = "delete"
        THEN ActionDelete(req, permCall.organizationId, permCall, failing)
        ELSE ActionToggle(req, permCall, failing)

\* the catch of the loader: throw json(error(reason))
LoaderCatch(tr) ==
    Outcome(tr, assets,
            [json("error", "default") EXCEPT !.kind = "thrown"])

\* loader({ context, request, params })
loaderOutcome(req, perm, failing) ==
    LET permCall == requirePermission(perm, "read")
        found == failing # "getAsset" /\
                 \E a \in assets :
                     GetAssetWhere(a, permCall.organizationId, req.id)
        got == Call("getAsset", permCall.organizationId, req.id, "", FALSE,
                    found)
    IN  IF ~req.paramsValid THEN Outcome(<<>>, assets, escaped)
        ELSE IF ~permCall.ok THEN LoaderCatch(<<permCall>>)
        ELSE IF ~found THEN LoaderCatch(<<permCall, got>>)
        ELSE Outcome(<<permCall, got>>, assets, json("data", "default"))

ActionFailures == {"none", "formData", "deleteAsset", "deleteAssetImage",
                   "updateAssetBookingAvailability"}

LoaderFailures == {"none", "getAsset"}

Handled(handler, o) ==
    /\ response = NoResponse
    /\ trace' = o.trace
    /\ assets' = o.assets
    /\ response' = [o.response EXCEPT !.handler = handler]
    /\ UNCHANGED <<request, permission>>

action ==
    \E failing \in ActionFailures :
        Handled("action", actionOutcome(request, permission, failing))

loader ==
    \E failing \in LoaderFailures :
        Handled("loader", loaderOutcome(request, permission, failing))

(***************************************************************************)
(* createLocationsIfNotExists                                              *)
(***************************************************************************)
\* most rows of an imported file
MaxImported == 2

\* the calls that run concurrently
Runs == {"r1", "r2"}

\* the organization both calls import into
ImportOrg == "orgA"

\* asset.location of a row: <<>> when undefined, else <<text>>; the texts
ImportedTexts == {<<>>, <<"a">>, <<"A">>, <<" ", "a">>}

\* a call: the rows given, the keys of the Map, the key being handled, where
\* the call is, the ids set in the Map so far, the number of locations it
\* created, and whether it was called after the other call had ended
NoRun == [data |-> <<>>, keys |-> <<>>, at |-> 0, phase |-> "none",
          ids |-> <<>>, created |-> 0, after |-> FALSE]

\* .filter((asset) => asset.location !== "")
NotEmptyString(location) == location # <<(<<>>)>>

RECURSIVE MapKeys(_)
\* new Map(entries): each key once, in the order of its first entry
MapKeys(entries) ==
    IF entries = <<>> THEN <<>>
    ELSE LET before == MapKeys(SubSeq(entries, 1, Len(entries) - 1))
             e == entries[Len(entries)]
         IN  IF \E i \in 1..Len(before) : before[i] = e
             THEN before
             ELSE Append(before, e)

RECURSIVE trimStart(_)
trimStart(text) ==
    IF text # <<>> /\ text[1] = " " THEN trimStart(Tail(text)) ELSE text

RECURSIVE trimEnd(_)
trimEnd(text) ==
    IF text # <<>> /\ text[Len(text)] = " "
    THEN trimEnd(SubSeq(text, 1, Len(text) - 1))
    ELSE text

\* (location as string).trim()
trim(text) == trimEnd(trimStart(text))

\* where: { name: { equals: location, mode: "insensitive" }, organizationId }
ImportWhere(l, location, org) ==
    /\ toLower(l.name) = toLower(location)
    /\ l.organizationId = org

\* the call moves on to the next key of the Map, or returns
ImportNext(r) ==
    IF r.at = Len(r.keys)
    THEN [r EXCEPT !.phase = "done"]
    ELSE [r EXCEPT !.at = r.at + 1, !.phase = "find"]

\* the Map is built; return {} when a row has no location at all
importStart(p) ==
    LET r == runs[p]
        keys == MapKeys(SelectSeq(r.data, NotEmptyString))
        after == \E q \in Runs \ {p} : runs[q].phase \in {"done", "failed"}
    IN  /\ r.phase = "start"
        /\ runs' = [runs EXCEPT ![p] =
              IF (\E i \in 1..Len(keys) : keys[i] = <<>>) \/ keys = <<>>
              THEN [r EXCEPT !.phase = "done", !.after = after]
              ELSE [r EXCEPT !.keys = keys, !.at = 1, !.phase = "find",
                             !.ids = [i \in 1..Len(keys) |-> 0],
                             !.after = after]]
        /\ UNCHANGED <<locations, nextLocationId>>

\* await db.location.findFirst(...)
importFind(p) ==
    LET r == runs[p]
        location == r.keys[r.at][1]
        existing == {l \in locations : ImportWhere(l, location, ImportOrg)}
    IN  /\ r.phase = "find"
        /\ IF existing = {}
           THEN runs' = [runs EXCEPT ![p] = [r EXCEPT !.phase = "create"]]
           ELSE \E existingLocation \in existing :
                  runs' = [runs EXCEPT ![p] =
                     ImportNext([r EXCEPT !.ids[r.at] = existingLocation.id])]
        /\ UNCHANGED <<locations, nextLocationId>>

\* await db.location.create(...); a violation of the unique index throws and
\* the catch throws a ShelfError
importCreate(p) ==
    LET r == runs[p]
        name == trim(r.keys[r.at][1])
    IN  /\ r.phase = "create"
        /\ IF UniqueViolation(ImportOrg, name, 0)
           THEN /\ runs' = [runs EXCEPT ![p] = [r EXCEPT !.phase = "failed"]]
                /\ UNCHANGED <<locations, nextLocationId>>
           ELSE /\ locations' = locations \cup
                     {[id |-> nextLocationId, organizationId |-> ImportOrg,
                       name |-> name, imageId |-> NoImage,
                       imageUrl |-> NoUrl]}
                /\ nextLocationId' = nextLocationId + 1
                /\ runs' = [runs EXCEPT ![p] =
                     ImportNext([r EXCEPT !.ids[r.at] = nextLocationId,
                                          !.created = r.created + 1])]

(***************************************************************************)
(* NewNote: the note form and its editing flag                             *)
(***************************************************************************)
\* NewNote components on the page
MaxInstances == 2

\* most form submissions
MaxSubmits == 2

Instances == 1..MaxInstances

\* the value of an editor: empty, or some text
Contents == {"", "note"}

\* an element: its tagName and the NewNote instance it is part of (0 for an
\* element outside the forms); "none" for no element
Element(tag, inst) == [tag |-> tag, inst |-> inst]

NoFocus == Element("none", 0)

\* event: its type, the instance it happened in, the instance whose editor
\* lost the focus (0 for none) and the tagName of e.relatedTarget
NoEvent == [type |-> "none", inst |-> 0, blurred |-> 0, target |-> "none"]

\* a setter that writes the state of the one instance
setIsEditingLocal(ed, i, value) == [ed EXCEPT ![i] = value]

\* setIsEditing of useAtom(isEditingAtom): one atom, read by every instance
setIsEditing(ed, i, value) == [j \in Instances |-> value]

\* a handler that does not look at the related target
handelBlurAnyTarget(ed, i, tag) ==
    IF content[i] = "" THEN setIsEditing(ed, i, FALSE) ELSE ed

\* handelBlur: nothing when the related target is a link or a button, else
\* setIsEditing(false) when the content is empty
handelBlur(ed, i, tag) ==
    IF tag = "A" \/ tag = "BUTTON" THEN ed
    ELSE IF content[i] = "" THEN setIsEditing(ed, i, FALSE)
    ELSE ed

\* the editor that has the focus, 0 for none
FocusedEditor == IF focus.tag = "TEXTAREA" THEN focus.inst ELSE 0

\* the focus moves to an element with the given tag: the editor that had the
\* focus, if any, gets its blur
BlurTo(ed, tag) ==
    IF FocusedEditor # 0 THEN handelBlur(ed, FocusedEditor, tag) ELSE ed

\* the render after the flags became ed: {isEditing ? editor : placeholder};
\* an editor that is mounted starts empty, an element that is unmounted
\* loses the focus, and the effect on [isEditing] is due where the flag
\* turned true
Render(ed, text, f, ev) ==
    /\ isEditing' = ed
    /\ content' = [i \in Instances |-> IF ed[i] THEN text[i] ELSE ""]
    /\ focus' = IF f.inst = 0 THEN f
                ELSE IF f.tag = "INPUT" /\ ed[f.inst] THEN NoFocus
                ELSE IF f.tag # "INPUT" /\ ~ed[f.inst] THEN NoFocus
                ELSE f
    /\ effects' = {i \in Instances :
                     ed[i] /\ (i \in effects \/ ~isEditing[i])}
    /\ event' = ev

\* <Input onFocus={() => setIsEditing(true)} />
onFocus(i) ==
    /\ ~isEditing[i]
    /\ Render(setIsEditing(BlurTo(isEditing, "INPUT"), i, TRUE), content,
              Element("INPUT", i),
              [type |-> "focus", inst |-> i, blurred |-> FocusedEditor,
               target |-> "INPUT"])
    /\ UNCHANGED <<submitted, processing>>

\* useEffect(() => { if (isEditing) editorRef?.current?.focus() })
focusEffect(i) ==
    /\ i \in effects
    /\ isEditing[i]
    /\ LET blurred == IF FocusedEditor = i THEN 0 ELSE FocusedEditor
           ed == IF blurred # 0 THEN handelBlur(isEditing, blurred, "TEXTAREA")
                 ELSE isEditing
       IN  /\ isEditing' = ed
           /\ content' = [j \in Instances |-> IF ed[j] THEN content[j] ELSE ""]
           /\ focus' = IF ed[i] THEN Element("TEXTAREA", i) ELSE NoFocus
           /\ effects' = {j \in effects \ {i} : ed[j]}
           /\ event' = [type |-> "effect", inst |-> i, blurred |-> blurred,
                        target |-> "TEXTAREA"]
    /\ UNCHANGED <<submitted, processing>>

\* the user types in the editor that has the focus
onChange(i, text) ==
    /\ FocusedEditor = i
    /\ ~processing
    /\ content' = [content EXCEPT ![i] = text]
    /\ event' = [type |-> "change", inst |-> i, blurred |-> 0,
                 target |-> "none"]
    /\ UNCHANGED <<isEditing, focus, effects, submitted, processing>>

\* onBlur={handelBlur}: the focus leaves the editor for an element outside
\* the forms, or for none
onBlur(i, tag) ==
    /\ FocusedEditor = i
    /\ Render(handelBlur(isEditing, i, tag), content,
              IF tag = "none" THEN NoFocus ELSE Element(tag, 0),
              [type |-> "blur", inst |-> i, blurred |-> i, target |-> tag])
    /\ UNCHANGED <<submitted, processing>>

\* the Cancel button: onClick={() => setIsEditing(false)}
onCancelClick(i) ==
    /\ isEditing[i]
    /\ Render(setIsEditing(BlurTo(isEditing, "BUTTON"), i, FALSE), content,
              Element("BUTTON", i),
              [type |-> "cancel", inst |-> i, blurred |-> FocusedEditor,
               target |-> "BUTTON"])
    /\ UNCHANGED <<submitted, processing>>

\* handleKeyDown, bound to onKeyUp: submits when the content is not empty and
\* the key is Enter with the meta or the control key
handleKeyDown(i, key, metaOrCtrl) ==
    /\ FocusedEditor = i
    /\ ~processing
    /\ event' = [type |-> "keyUp", inst |-> i, blurred |-> 0,
                 target |-> "none"]
    /\ IF content[i] # "" /\ key = "Enter" /\ metaOrCtrl
       THEN /\ submitted < MaxSubmits
            /\ submitted' = submitted + 1
            /\ processing' = TRUE
       ELSE UNCHANGED <<submitted, processing>>
    /\ UNCHANGED <<isEditing, content, focus, effects>>

\* the "Create note" button, disabled while the fetcher is busy; the form
\* is submitted when NewNoteSchema accepts the content
onSubmitClick(i) ==
    /\ isEditing[i]
    /\ ~processing
    /\ Render(BlurTo(isEditing, "BUTTON"), content, Element("BUTTON", i),
              [type |-> "submitClick", inst |-> i, blurred |-> FocusedEditor,
               target |-> "BUTTON"])
    /\ IF content[i] # ""
       THEN /\ submitted < MaxSubmits
            /\ submitted' = submitted + 1
            /\ processing' = TRUE
       ELSE UNCHANGED <<submitted, processing>>

\* the fetcher is idle again with data: isDone changes and clearMarkdown()
\* runs; what it leaves in the editors is the editor's business
fetcherDone ==
    /\ processing
    /\ processing' = FALSE
    /\ \E cleared \in BOOLEAN :
          content' = IF cleared THEN [i \in Instances |-> ""] ELSE content
    /\ event' = [type |-> "done", inst |-> 0, blurred |-> 0, target |-> "none"]
    /\ UNCHANGED <<isEditing, focus, effects, submitted>>

(***************************************************************************)
(* Specifications                                                          *)
(***************************************************************************)
InitModalVars == /\ isOpen = FALSE
                 /\ isSubmitting = FALSE
                 /\ inFlight = 0
                 /\ calls = <<>>

\* the database starts empty, no request in progress
InitDbVars == /\ locations = {}
              /\ images = {}
              /\ nextLocationId = 1
              /\ nextImageId = 1
              /\ pending = NoCall
              /\ last = NoResult

\* no call made
InitPageVars == /\ page = <<>>
                /\ perPage = <<>>
                /\ skip = 0
                /\ take = 0
                /\ pagedBy = "none"

\* no asset, no list query made
InitListVars == /\ assets = {}
                /\ search = <<>>
                /\ result = NoRows

\* no request handled
InitRouteVars == /\ request = NoRequest
                 /\ permission = NoPermission
                 /\ trace = <<>>
                 /\ response = NoResponse

\* no import called
InitImportVars == runs = [p \in Runs |-> NoRun]

\* const isEditingAtom = atom(false); every instance shows the placeholder
InitNoteVars == /\ isEditing = [i \in Instances |-> FALSE]
                /\ content = [i \in Instances |-> ""]
                /\ focus = NoFocus
                /\ effects = {}
                /\ submitted = 0
                /\ processing = FALSE
                /\ event = NoEvent

InitLaterVars ==
    InitListVars /\ InitRouteVars /\ InitImportVars /\ InitNoteVars

InitModal == InitModalVars /\ InitDbVars /\ InitPageVars /\ InitLaterVars

NextModal == \/ TriggerClick /\ UNCHANGED <<dbVars, pageVars, laterVars>>
             \/ CancelClick /\ UNCHANGED <<dbVars, pageVars, laterVars>>
             \/ ConfirmClick /\ UNCHANGED <<dbVars, pageVars, laterVars>>
             \/ OpenCall /\ UNCHANGED <<dbVars, pageVars, laterVars>>
             \/ CloseCall /\ UNCHANGED <<dbVars, pageVars, laterVars>>
             \/ SubmitEnd /\ UNCHANGED <<dbVars, pageVars, laterVars>>

SpecModal == InitModal /\ [][NextModal]_vars

InitDb == InitModalVars /\ InitDbVars /\ InitPageVars /\ InitLaterVars

GetLocation ==
    \E locId \in LocationIds, org \in Orgs, uo \in SUBSET Orgs :
        getLocation(locId, org, uo)

CreateLocation ==
    \E name \in Names, org \in Orgs : createLocation(name, org)

UpdateLocation ==
    \E locId \in LocationIds, name \in Names \cup {NoName}, org \in Orgs :
        updateLocation(locId, name, org)

DeleteLocation ==
    \E locId \in LocationIds, org \in Orgs : deleteLocation(locId, org)

DeleteLocationImage == deleteLocationImage

BulkDeleteLocations ==
    \E ids \in SUBSET (LocationIds \cup {ALL_SELECTED_KEY}), org \in Orgs :
        bulkDeleteLocations(ids, org)

GenerateLocationWithImages ==
    \E org \in Orgs, n \in 1..MaxImages : generateLocationWithImages(org, n)

NextDb == \/ GetLocation /\ UNCHANGED <<modalVars, pageVars, laterVars>>
          \/ CreateLocation /\ UNCHANGED <<modalVars, pageVars, laterVars>>
          \/ UpdateLocation /\ UNCHANGED <<modalVars, pageVars, laterVars>>
          \/ DeleteLocation /\ UNCHANGED <<modalVars, pageVars, laterVars>>
          \/ DeleteLocationImage /\ UNCHANGED <<modalVars, pageVars, laterVars>>
          \/ BulkDeleteLocations /\ UNCHANGED <<modalVars, pageVars, laterVars>>
          \/ GenerateLocationWithImages /\ UNCHANGED <<modalVars, pageVars, laterVars>>

SpecDb == InitDb /\ [][NextDb]_vars

\* the writes alone: locations come into being through createLocation and
\* generateLocationWithImages, then any organization updates and deletes
InitWrite == InitModalVars /\ InitDbVars /\ InitPageVars /\ InitLaterVars

UpdateLocationImage ==
    \E locId \in LocationIds, org \in Orgs, hasImage \in BOOLEAN :
        updateLocationImage(locId, org, hasImage)

NextWrite == \/ CreateLocation /\ UNCHANGED <<modalVars, pageVars, laterVars>>
             \/ GenerateLocationWithImages /\ UNCHANGED <<modalVars, pageVars, laterVars>>
             \/ UpdateLocation /\ UNCHANGED <<modalVars, pageVars, laterVars>>
             \/ DeleteLocation /\ UNCHANGED <<modalVars, pageVars, laterVars>>
             \/ DeleteLocationImage /\ UNCHANGED <<modalVars, pageVars, laterVars>>
             \/ BulkDeleteLocations /\ UNCHANGED <<modalVars, pageVars, laterVars>>
             \/ UpdateLocationImage /\ UNCHANGED <<modalVars, pageVars, laterVars>>

SpecWrite == InitWrite /\ [][NextWrite]_vars

PageInputs == {<<>>} \cup {<<n>> : n \in (0 - MaxBelowZero)..MaxPage}

PerPageInputs == {<<>>} \cup {<<n>> : n \in (0 - MaxBelowZero)..MaxPerPage}

\* a call with any page and perPage, before it computes anything
InitPage == /\ InitModalVars
            /\ InitDbVars
            /\ InitLaterVars
            /\ page \in PageInputs
            /\ perPage \in PerPageInputs
            /\ skip = 0
            /\ take = 0
            /\ pagedBy = "none"

NextPage == \/ getLocationPaging /\ UNCHANGED <<modalVars, dbVars, laterVars>>
            \/ getLocationsPaging /\ UNCHANGED <<modalVars, dbVars, laterVars>>

SpecPage == InitPage /\ [][NextPage]_vars

ListPageInputs == {<<>>} \cup {<<n>> : n \in 1..MaxListPage}

ListPerPageInputs == {<<>>} \cup {<<n>> : n \in (0 - 1)..MaxListPerPage}

SearchInputs == {<<>>} \cup {<<t>> : t \in SearchTexts}

\* the Location table with, for each id, no row or a row of the organization
\* and name f gives
LocationRows(f) ==
    {[id |-> i, organizationId |-> f[i][1], name |-> f[i][2],
      imageId |-> NoImage, imageUrl |-> NoUrl] :
        i \in {j \in LocationIds : f[j] # <<>>}}

\* the Asset table with, for each id, a row of the location and title f gives
AssetRows(f) ==
    {[id |-> i, locationId |-> f[i][1], title |-> f[i][2]] :
        i \in 1..MaxAssets}

\* any Location table the unique index on (organizationId, name) allows, and
\* a getLocations call with any page, perPage and search about to be made
InitLocations ==
    /\ InitModalVars
    /\ locations \in
          {LocationRows(f) :
             f \in {g \in [LocationIds -> {<<>>} \cup (Orgs \X ListNames)] :
                      \A i, j \in LocationIds :
                          (i # j /\ g[i] # <<>>) => g[i] # g[j]}}
    /\ images = {}
    /\ nextLocationId = MaxLocations + 1
    /\ nextImageId = 1
    /\ pending = NoCall
    /\ last = NoResult
    /\ page \in ListPageInputs
    /\ perPage \in ListPerPageInputs
    /\ skip = 0
    /\ take = 0
    /\ pagedBy = "none"
    /\ assets = {}
    /\ search \in SearchInputs
    /\ result = NoRows
    /\ InitRouteVars
    /\ InitImportVars
    /\ InitNoteVars

GetLocations == \E org \in Orgs : getLocations(org)

NextLocations ==
    GetLocations /\ UNCHANGED <<modalVars, dbVars, routeVars, importVars, noteVars>>

SpecLocations == InitLocations /\ [][NextLocations]_vars

\* a location of each organization, any assets at them, and a getLocation
\* call with any page, perPage and search about to be made
InitAssets ==
    /\ InitModalVars
    /\ locations =
          {[id |-> i, organizationId |-> IF i = 1 THEN "orgA" ELSE "orgB",
            name |-> id(i), imageId |-> NoImage, imageUrl |-> NoUrl] :
              i \in LocationIds}
    /\ images = {}
    /\ nextLocationId = MaxLocations + 1
    /\ nextImageId = 1
    /\ pending = NoCall
    /\ last = NoResult
    /\ page \in ListPageInputs
    /\ perPage \in ListPerPageInputs
    /\ skip = 0
    /\ take = 0
    /\ pagedBy = "none"
    /\ assets \in {AssetRows(f) :
                     f \in [1..MaxAssets -> LocationIds \X ListNames]}
    /\ search \in SearchInputs
    /\ result = NoRows
    /\ InitRouteVars
    /\ InitImportVars
    /\ InitNoteVars

GetLocationWithAssets ==
    \E locId \in LocationIds, org \in Orgs, uo \in {{}, Orgs} :
        getLocationWithAssets(locId, org, uo)

NextAssets ==
    GetLocationWithAssets /\
        UNCHANGED <<modalVars, dbVars, routeVars, importVars, noteVars>>

SpecAssets == InitAssets /\ [][NextAssets]_vars

Requests ==
    [paramsValid : BOOLEAN, id : 1..(MaxRouteAssets + 1),
     intent : Intents \cup {"archive", NoField},
     availableToBook : {"on", "off", NoField},
     mainImageUrl : {"url", NoField}]

Permissions == [organizationId : Orgs, allowed : SUBSET PermissionActions]

\* the Asset table of the route: asset 1 is of orgA, the others of orgB
RouteAssetRows(f) ==
    {[id |-> i, organizationId |-> IF i = 1 THEN "orgA" ELSE "orgB",
      availableToBook |-> f[i]] : i \in AssetIds}

\* any request from any caller, about to be handled
InitRoute ==
    /\ InitModalVars
    /\ InitDbVars
    /\ InitPageVars
    /\ assets \in {RouteAssetRows(f) : f \in [AssetIds -> BOOLEAN]}
    /\ search = <<>>
    /\ result = NoRows
    /\ request \in Requests
    /\ permission \in Permissions
    /\ trace = <<>>
    /\ response = NoResponse
    /\ InitImportVars
    /\ InitNoteVars

NextRoute ==
    \/ action /\
         UNCHANGED <<modalVars, dbVars, pageVars, search, result, importVars,
                     noteVars>>
    \/ loader /\
         UNCHANGED <<modalVars, dbVars, pageVars, search, result, importVars,
                     noteVars>>

SpecRoute == InitRoute /\ [][NextRoute]_vars

\* the rows of a file: every row has a location text, or there is no
\* location column and no row has one
ImportData ==
    UNION {[1..n -> {<<t>> : t \in ImportedTexts}] : n \in 1..MaxImported}
        \cup {[i \in 1..n |-> <<>>] : n \in 1..MaxImported}

\* a location "a" of another organization, and perhaps a location "A" of the
\* importing one; two calls about to start
InitImport ==
    /\ InitModalVars
    /\ InitPageVars
    /\ InitListVars
    /\ InitRouteVars
    /\ InitNoteVars
    /\ \E own \in BOOLEAN :
          /\ locations =
                {[id |-> 1, organizationId |-> "orgB", name |-> <<"a">>,
                  imageId |-> NoImage, imageUrl |-> NoUrl]} \cup
                (IF own
                 THEN {[id |-> 2, organizationId |-> ImportOrg,
                        name |-> <<"A">>, imageId |-> NoImage,
                        imageUrl |-> NoUrl]}
                 ELSE {})
          /\ nextLocationId = IF own THEN 3 ELSE 2
    /\ images = {}
    /\ nextImageId = 1
    /\ pending = NoCall
    /\ last = NoResult
    /\ runs \in [Runs -> {[NoRun EXCEPT !.data = d, !.phase = "start"] :
                             d \in ImportData}]

ImportFrame ==
    UNCHANGED <<modalVars, pageVars, listVars, routeVars, noteVars, images,
                nextImageId, pending, last>>

NextImport == \/ \E p \in Runs : importStart(p) /\ ImportFrame
              \/ \E p \in Runs : importFind(p) /\ ImportFrame
              \/ \E p \in Runs : importCreate(p) /\ ImportFrame

SpecImport == InitImport /\ [][NextImport]_vars

InitNote ==
    /\ InitModalVars
    /\ InitDbVars
    /\ InitPageVars
    /\ InitListVars
    /\ InitRouteVars
    /\ InitImportVars
    /\ InitNoteVars

NoteFrame ==
    UNCHANGED <<modalVars, dbVars, pageVars, listVars, routeVars, importVars>>

Keys == {"Enter", "a"}

BlurTargets == {"none", "A", "BUTTON", "INPUT"}

NextNote ==
    \/ \E i \in Instances : onFocus(i) /\ NoteFrame
    \/ \E i \in Instances : focusEffect(i) /\ NoteFrame
    \/ \E i \in Instances, text \in Contents : onChange(i, text) /\ NoteFrame
    \/ \E i \in Instances, tag \in BlurTargets : onBlur(i, tag) /\ NoteFrame
    \/ \E i \in Instances : onCancelClick(i) /\ NoteFrame
    \/ \E i \in Instances, key \in Keys, metaOrCtrl \in BOOLEAN :
          handleKeyDown(i, key, metaOrCtrl) /\ NoteFrame
    \/ \E i \in Instances : onSubmitClick(i) /\ NoteFrame
    \/ fetcherDone /\ NoteFrame

SpecNote == InitNote /\ [][NextNote]_vars

(***************************************************************************)
(* Properties of the bulk location update modal                            *)
(***************************************************************************)
Last(s) == s[Len(s)]

Count(s, op) == Cardinality({i \in 1..Len(s) : s[i] = op})

\* an onSubmitStart has been logged and no onSubmitEnd after it
InSubmission ==
    \E i \in 1..Len(calls) :
        /\ calls[i] = "onSubmitStart"
        /\ \A j \in (i + 1)..Len(calls) : calls[j] # "onSubmitEnd"

\* the operations logged since the last submission event are all open / close
\* calls, and there is at least one of them
OnlyOpenCloseSinceSubmission ==
    /\ calls # <<>>
    /\ \E k \in 1..Len(calls) :
        /\ k = 1 \/ calls[k - 1] = "onSubmitEnd"
        /\ \A j \in k..Len(calls) : calls[j] \in {"open", "close"}

\* C1: between onSubmitStart and onSubmitEnd the modal stays open, however
\* many close() calls (Cancel activations) happen in between.
C1_CloseWhileSubmittingIsNoOp ==
    InSubmission => (isOpen /\ isSubmitting)

\* two close() calls in a row during a submission, modal still open
C1_Witness ==
    /\ InSubmission
    /\ Len(calls) >= 3
    /\ calls[Len(calls)] = "close"
    /\ calls[Len(calls) - 1] = "close"
    /\ isOpen

\* C2: at most one bulk action is in flight per modal instance; while one is,
\* the trigger, Cancel and Confirm controls are all disabled.
C2_AtMostOneInFlight ==
    /\ inFlight <= 1
    /\ inFlight > 0 => isSubmitting
    /\ isSubmitting => (TriggerDisabled /\ CancelDisabled /\ ConfirmDisabled)

\* a second submission running after the first one completed
C2_Witness ==
    /\ Count(calls, "onSubmitStart") = 2
    /\ Count(calls, "onSubmitEnd") = 1
    /\ inFlight = 1
    /\ isSubmitting

\* C3: right after onSubmitEnd the modal is closed and not submitting,
\* whatever the state was before.
C3_AfterSubmitEndClosedAndIdle ==
    (calls # <<>> /\ Last(calls) = "onSubmitEnd") => (~isOpen /\ ~isSubmitting)

\* onSubmitEnd fired while the modal was open and submitting
C3_Witness ==
    /\ Len(calls) >= 2
    /\ Last(calls) = "onSubmitEnd"
    /\ calls[Len(calls) - 1] = "onSubmitStart"
    /\ ~isOpen
    /\ ~isSubmitting

\* after open / close calls with no submission in between, isOpen is true iff
\* the last call was open()
LastCallDecidesIsOpen ==
    OnlyOpenCloseSinceSubmission => (isOpen <=> Last(calls) = "open")

\* a step that logs open() on an already open modal changes no state
OpenOnOpenChangesNothing ==
    (/\ isOpen
     /\ Len(calls') = Len(calls) + 1
     /\ calls'[Len(calls')] = "open")
        => (/\ isOpen' = isOpen
            /\ isSubmitting' = isSubmitting
            /\ inFlight' = inFlight)

\* C4: for every sequence of open() and close() calls with no submission in
\* between, the final isOpen is true iff the last call was open(); open() on
\* an open modal changes nothing.
C4_OpenCloseLastCallWins ==
    /\ []LastCallDecidesIsOpen
    /\ [][OpenOnOpenChangesNothing]_vars

\* open, close, open, open: the modal is open and the last open was a no-op
C4_Witness ==
    /\ Len(calls) >= 4
    /\ \A i \in 1..Len(calls) : calls[i] \in {"open", "close"}
    /\ \E i \in 1..Len(calls) : calls[i] = "close"
    /\ Last(calls) = "open"
    /\ calls[Len(calls) - 1] = "open"
    /\ isOpen

(***************************************************************************)
(* Properties of the location data service                                 *)
(***************************************************************************)
BulkInputs == SUBSET (LocationIds \cup {ALL_SELECTED_KEY})

\* a location with this id exists and belongs to another organization
Foreign(locId, org) ==
    \E l \in locations : l.id = locId /\ l.organizationId # org

Exists(locId) == \E l \in locations : l.id = locId

\* a bulk delete that is passed the "all selected" value leaves no location
\* of the organization that existed before the step
SentinelStep ==
    LET ids == last'.ids
        org == last'.organizationId
    IN  (/\ last'.op = "bulkDeleteLocations"
         /\ ALL_SELECTED_KEY \in ids
         /\ bulkDeleteLocations(ids, org))
            => /\ last'.outcome = "ok"
               /\ \A l \in locations :
                    l.organizationId = org =>
                        ~ \E k \in locations' : k.id = l.id

\* C5: bulkDeleteLocations with a list containing the "all selected" value
\* deletes every location the organization has when it is called, whatever
\* other ids the list holds.
C5_SentinelDeletesWholeOrganization == [][SentinelStep]_vars

\* a bulk delete with the "all selected" value and an id of no location,
\* which removed a location and left another organization's location alone
C5_Witness ==
    /\ last.op = "bulkDeleteLocations"
    /\ ALL_SELECTED_KEY \in last.ids
    /\ \E i \in last.ids : i # ALL_SELECTED_KEY /\ ~Exists(i)
    /\ last.deleted >= 1
    /\ last.outcome = "ok"
    /\ ~ \E l \in locations : l.organizationId = last.organizationId
    /\ \E l \in locations : l.organizationId # last.organizationId

\* no two locations of one organization have the same name
UniqueNames ==
    \A l \in locations, k \in locations :
        (l.organizationId = k.organizationId /\ l.name = k.name) => l = k

\* createLocation fails with the duplicate-name error and creates nothing
\* when the organization has the name, and creates the location otherwise
CreateStep ==
    \A name \in Names, org \in {last'.organizationId} :
        (last'.op = "createLocation" /\ createLocation(name, org)) =>
            IF \E l \in locations : l.organizationId = org /\ l.name = name
            THEN /\ last'.outcome = "ShelfError"
                 /\ last'.kind = "duplicate"
                 /\ locations' = locations
            ELSE /\ last'.outcome = "ok"
                 /\ \E l \in locations' \ locations :
                        l.organizationId = org /\ l.name = name

\* C6: createLocation with a name the organization already uses fails with
\* the duplicate-name error and creates nothing, the same name in another
\* organization succeeds, and names stay unique per organization.
C6_DuplicateNameRejected ==
    /\ []UniqueNames
    /\ [][CreateStep]_vars

\* a name used in both organizations, and a createLocation that was refused
\* as a duplicate
C6_Witness ==
    /\ last.op = "createLocation"
    /\ last.outcome = "ShelfError"
    /\ last.kind = "duplicate"
    /\ \E l \in locations, k \in locations :
          l.name = k.name /\ l.organizationId # k.organizationId

\* getLocation, updateLocation and deleteLocation throw for a location of
\* another organization and change no location
SingleForeignStep ==
    LET locId == last'.id
        org == last'.organizationId
    IN  /\ \A uo \in SUBSET Orgs :
              (/\ last'.op = "getLocation"
               /\ Foreign(locId, org)
               /\ getLocation(locId, org, uo))
                  => last'.outcome = "ShelfError"
        /\ \A name \in Names \cup {NoName} :
              (/\ last'.op = "updateLocation"
               /\ Foreign(locId, org)
               /\ updateLocation(locId, name, org))
                  => (last'.outcome = "ShelfError" /\ locations' = locations)
        /\ (/\ last'.op = "deleteLocation"
            /\ Foreign(locId, org)
            /\ deleteLocation(locId, org))
               => (last'.outcome = "ShelfError" /\ locations' = locations)

\* the step is a bulk delete whose list holds the id of a location of
\* another organization
BulkForeignCall ==
    /\ last'.op = "bulkDeleteLocations"
    /\ \E i \in last'.ids : Foreign(i, last'.organizationId)
    /\ bulkDeleteLocations(last'.ids, last'.organizationId)

\* such a bulk delete throws
BulkForeignThrowsStep == BulkForeignCall => last'.outcome = "ShelfError"

\* such a bulk delete returns normally and deletes no location of another
\* organization
BulkForeignSkipsStep ==
    BulkForeignCall
        => /\ last'.outcome = "ok"
           /\ \A l \in locations :
                l.organizationId # last'.organizationId => l \in locations'

\* C7 as stated: each of getLocation, updateLocation, deleteLocation and
\* bulkDeleteLocations fails with a ShelfError when given the id of a
\* location of another organization.
C7_ForeignIdAlwaysThrows ==
    [][SingleForeignStep /\ BulkForeignThrowsStep]_vars

\* C7 as amended: getLocation, updateLocation and deleteLocation fail with a
\* ShelfError when given the id of a location of another organization;
\* bulkDeleteLocations given such an id returns normally and leaves that
\* location in place.
C7_ForeignIdRejectedOrSkipped ==
    [][SingleForeignStep /\ BulkForeignSkipsStep]_vars

\* a bulk delete that was passed the id of another organization's location
\* returned normally, and the location is still there
C7_Witness ==
    /\ last.op = "bulkDeleteLocations"
    /\ last.outcome = "ok"
    /\ \E i \in last.ids : Foreign(i, last.organizationId)

\* C10: getLocation throws a ShelfError with status 404 both when no
\* location has the id and when the location belongs to another
\* organization, whether or not the user is a member of it.
C10_GetLocationNotFoundIs404 ==
    [][\A uo \in SUBSET Orgs :
         (/\ last'.op = "getLocation"
          /\ ~Exists(last'.id) \/ Foreign(last'.id, last'.organizationId)
          /\ getLocation(last'.id, last'.organizationId, uo))
             => (last'.outcome = "ShelfError"
                 /\ last'.status = NotFoundStatus)]_vars

(***************************************************************************)
(* Properties of the pagination                                            *)
(***************************************************************************)
\* the page and perPage the function works with, defaults applied
PageUsed == OrDefault(page, DefaultPage)

PerPageUsed == OrDefault(perPage, DefaultPerPage)

C9_TakeBetween1And25 ==
    pagedBy # "none" => (1 <= take /\ take <= DocumentedMaxPerPage)

\* C19: for all page and perPage the skip is non-negative and equals
\* (page - 1) times the page size taken, so consecutive pages are contiguous
\* windows; this includes a perPage below 1, where the page size is 8.
C19_SkipIsPageTimesTake ==
    (pagedBy # "none" /\ PageUsed >= 1) =>
        (skip >= 0 /\ skip = (PageUsed - 1) * take)

(***************************************************************************)
(* Properties of the removal of locations and their images                 *)
(***************************************************************************)
\* C17: removal of a location together with its image is all-or-nothing: no
\* reachable state has a location deleted while its image record remains.
C17_NoImageOutlivesItsLocation ==
    \A i \in images : \E l \in locations : l.imageId = i

(* Properties of the isolation of organizations *)
\* the step is one of the four writes, called with organization org
WriteBy(org) ==
    \/ \E locId \in LocationIds, name \in Names \cup {NoName} :
          updateLocation(locId, name, org)
    \/ \E locId \in LocationIds : deleteLocation(locId, org)
    \/ pending.organizationId = org /\ deleteLocationImage
    \/ \E ids \in SUBSET (LocationIds \cup {ALL_SELECTED_KEY}) :
          bulkDeleteLocations(ids, org)
    \/ \E locId \in LocationIds, hasImage \in BOOLEAN :
          updateLocationImage(locId, org, hasImage)

\* every location of another organization is still there with the same
\* fields, and so is the image attached to it
Untouched(org) ==
    \A l \in locations :
        l.organizationId # org =>
            /\ l \in locations'
            /\ l.imageId \in images => l.imageId \in images'

MatchesInsensitive(text, searched) ==
    \E i \in 0..(Len(text) - Len(searched)) :
        \A k \in 1..Len(searched) : Lower(text[i + k]) = Lower(searched[k])

\* the search is a non-empty text
SearchGiven == search # <<>> /\ Len(search[1]) > 0

\* the locations of the organization whose name has the search in it
SearchedLocations(org) ==
    {l \in locations :
        /\ l.organizationId = org
        /\ SearchGiven => MatchesInsensitive(l.name, search[1])}

\* C11: getLocations returns only locations of the caller's organization
\* whose name contains the search case-insensitively, and totalLocations is
\* the count of the locations matching that organization-and-search filter,
\* whatever page and perPage are; with an empty or null search the filter is
\* the organization alone.
C11_SearchStaysInOrganization ==
    (result.op = "getLocations" /\ result.outcome = "ok") =>
        /\ \A i \in 1..Len(result.rows) :
              \E l \in SearchedLocations(result.organizationId) :
                  l.id = result.rows[i]
        /\ result.total =
              Cardinality(SearchedLocations(result.organizationId))

\* a search written in another letter case found the one location of the
\* organization it matches, while a location of the other organization
\* matches it as well
C11_Witness ==
    /\ result.op = "getLocations"
    /\ result.outcome = "ok"
    /\ search = <<(<<"a", "B">>)>>
    /\ result.total = 1
    /\ Len(result.rows) = 1
    /\ \E l \in locations :
          /\ l.organizationId # result.organizationId
          /\ MatchesInsensitive(l.name, search[1])

\* C20: the totalAssetsWithinLocation getLocation returns is the number of
\* assets matching the filter of the page: at the location and, when a search
\* is given, with the search in the title case-insensitively.
C20_TotalCountsTheFilteredAssets ==
    (result.op = "getLocation" /\ result.outcome = "ok") =>
        result.total =
            Cardinality({a \in assets :
                           /\ a.locationId = result.id
                           /\ SearchGiven =>
                                 MatchesInsensitive(a.title, search[1])})

(* Properties of the asset route *)
Mutations == {"deleteAsset", "deleteAssetImage",
              "updateAssetBookingAvailability"}

\* the calls of fn in the trace tr
CallsOf(tr, fn) == {i \in 1..Len(tr) : tr[i].fn = fn}

\* the permission the intent needs
RequiredPermission(intent) ==
    CASE intent = "delete" -> "delete"
      [] intent = "toggle" -> "update"
      [] OTHER -> "none"

\* entry i of the trace tr is a requirePermission that succeeded for the
\* permission the intent of the request needs
PermittedAt(tr, i) ==
    /\ tr[i].fn = "requirePermission"
    /\ tr[i].ok
    /\ tr[i].action = RequiredPermission(request.intent)

\* C12: the action makes no mutation call (deleteAsset, deleteAssetImage,
\* updateAssetBookingAvailability) and sends no notification unless
\* requirePermission succeeded earlier in the same request for the permission
\* matching the intent (delete for "delete", update for "toggle"); when it
\* did not succeed the Asset table is left as it was.
C12_NoMutationBeforePermission ==
    [][response'.handler = "action" =>
         /\ \A j \in 1..Len(trace') :
               trace'[j].fn \in Mutations \cup {"sendNotification"} =>
                   \E i \in 1..(j - 1) : PermittedAt(trace', i)
         /\ (~\E i \in 1..Len(trace') : PermittedAt(trace', i)) =>
               assets' = assets]_vars

\* a caller allowed to update but not to delete sent "delete" for an asset
\* of the caller's organization: permission was asked and refused, and
\* nothing else was called
C12_Witness ==
    /\ response.handler = "action"
    /\ request.intent = "delete"
    /\ permission.allowed = {"read", "update"}
    /\ \E a \in assets :
          a.id = request.id /\ a.organizationId = permission.organizationId
    /\ Len(trace) = 1
    /\ trace[1].fn = "requirePermission"
    /\ ~trace[1].ok
    /\ response.body = "error"

\* C13: every failure in the action or the loader is caught by the handler
\* and returned as the JSON error envelope: no handler lets an exception
\* escape or throws its response.
C13_FailuresAreReturnedAsErrorEnvelope ==
    response.handler # "none" => response.kind = "returned"

C15_MutationsStayInOrganization ==
    [][response'.handler = "action" =>
         \A a \in assets :
             a.organizationId # permission.organizationId => a \in assets']_vars

(* Properties of createLocationsIfNotExists *)
Ended(p) == runs[p].phase \in {"done", "failed"}

\* the locations of the importing organization named as the text is, letter
\* case and surrounding blanks aside
NamedLike(text) ==
    {l \in locations :
        /\ l.organizationId = ImportOrg
        /\ toLower(l.name) = toLower(trim(text))}

\* no location was created for a name the organization already had
CreatedOnlyNewNames ==
    \A l \in locations :
        l.organizationId = ImportOrg => Cardinality(NamedLike(l.name)) = 1

\* a call that returned maps each of its names to a location of the
\* organization
EveryNameMapped ==
    \A p \in Runs :
        runs[p].phase = "done" =>
            \A i \in 1..Len(runs[p].keys) :
                \E l \in locations :
                    l.id = runs[p].ids[i] /\ l.organizationId = ImportOrg

\* two calls importing the same name both return, with the same id for it,
\* and one location has that name
SameNameSameId ==
    \A p, q \in Runs :
        (p # q /\ Ended(p) /\ Ended(q)) =>
            \A i \in 1..Len(runs[p].keys), j \in 1..Len(runs[q].keys) :
                runs[p].keys[i] = runs[q].keys[j] =>
                    /\ runs[p].phase = "done"
                    /\ runs[q].phase = "done"
                    /\ runs[p].ids[i] = runs[q].ids[j]
                    /\ Cardinality(NamedLike(runs[p].keys[i][1])) = 1

\* a call made with the same rows after the other call returned creates
\* nothing
SecondRunCreatesNothing ==
    \A p, q \in Runs :
        (/\ p # q
         /\ runs[q].phase = "done"
         /\ runs[p].after
         /\ Ended(p)
         /\ runs[p].data = runs[q].data) => runs[p].created = 0

\* C18: createLocationsIfNotExists creates a location only for a name no
\* location of the organization has (compared case-insensitively) and maps
\* every distinct non-empty imported name to the id of a location of the
\* organization; two concurrent calls for one organization that import the
\* same new name both succeed, return the same id for it and leave exactly
\* one location with that name; a second run creates nothing.
C18_ImportIsIdempotent ==
    /\ CreatedOnlyNewNames
    /\ EveryNameMapped
    /\ SameNameSameId
    /\ SecondRunCreatesNothing

(* Properties of the note form *)
\* an editor lost the focus in this step, with empty content and to an
\* element that is neither a link nor a button
EmptyBlurAway ==
    /\ event'.blurred # 0
    /\ content[event'.blurred] = ""
    /\ event'.target \notin {"A", "BUTTON"}

\* the step submitted the form
Submits == submitted' # submitted

\* C21: over any sequence of events the editing flag follows this state
\* machine: focusing the placeholder input sets isEditing to true; Cancel sets
\* it to false; a blur of the editor sets it to false only when the content
\* is empty and the element receiving the focus is neither a link (A) nor a
\* BUTTON, and a blur with content never leaves editing mode; Ctrl/Cmd+Enter
\* submits the form only when the content is not empty; the flag being one
\* shared atom, all NewNote instances agree on isEditing.
C21_EditingFlagStateMachine ==
    [][/\ event'.type = "focus" => isEditing'[event'.inst]
       /\ event'.type = "cancel" => ~isEditing'[event'.inst]
       /\ event'.type = "blur" =>
             /\ EmptyBlurAway => ~isEditing'[event'.inst]
             /\ ~EmptyBlurAway => isEditing'[event'.inst]
       /\ \A i \in Instances :
             (isEditing[i] /\ ~isEditing'[i]) =>
                 event'.type = "cancel" \/ EmptyBlurAway
       /\ (event'.type = "keyUp" /\ Submits) => content[event'.inst] # ""
       /\ \A i, j \in Instances : isEditing'[i] = isEditing'[j]]_vars

\* an editor with a note typed in it lost the focus to an element outside
\* the forms, and every instance is still in editing mode
C21_Witness ==
    /\ event.type = "blur"
    /\ event.target = "INPUT"
    /\ content[event.inst] = "note"
    /\ \A i \in Instances : isEditing[i]

====
